---- MODULE Spec2Model ----
(***************************************************************************)
(* Model of sdk/python/kfp/dsl/types/artifact_types.py: the artifact       *)
(* classes (Artifact, Model, ClassificationMetrics,                        *)
(* SlicedClassificationMetrics), the uri <-> local path translation and    *)
(* the task-root accessor get_uri.                                         *)
(*                                                                         *)
(* A Python str is a sequence of one-character strings.  An object         *)
(* attribute that __init__ never assigns is absent until a method assigns  *)
(* it (reading it raises AttributeError).  Every operation records in a    *)
(* "call" variable what was called, with which arguments, what the         *)
(* object looked like before, and how the call ended.                      *)
(***************************************************************************)
EXTENDS Integers, Sequences, FiniteSets, TLC

VARIABLES
    kind,                 \* class of the artifact object: "Artifact" | "Model"
    uri,                  \* Artifact.uri
    acall,                \* last operation on the artifact
    CONTAINER_TASK_ROOT,  \* module global, Optional[str]
    gcall,                \* last operation on the task root
    cm,                   \* a ClassificationMetrics object
    ccall,                \* last operation on cm
    scm,                  \* a SlicedClassificationMetrics object
    scall,                \* last operation on scm
    referenced            \* slice labels passed to scm so far, in first-use order

pathVars == <<kind, uri, acall>>
rootVars == <<CONTAINER_TASK_ROOT, gcall>>
cmVars == <<cm, ccall>>
slicedVars == <<scm, scall, referenced>>

-----------------------------------------------------------------------------
(* Bounds of the model.                                                    *)

\* a uri remainder / local path tail is made of at most this many chunks
MaxChunks == 2

-----------------------------------------------------------------------------
(* Python str helpers.                                                     *)

StartsWith(s, p) == Len(s) >= Len(p) /\ SubSeq(s, 1, Len(p)) = p

EndsWith(s, p) == Len(s) >= Len(p) /\ SubSeq(s, Len(s) - Len(p) + 1, Len(s)) = p

\* s[n:]
DropPrefix(s, n) == SubSeq(s, n + 1, Len(s))

\* s[:-n]
DropSuffix(s, n) == SubSeq(s, 1, Len(s) - n)

\* s.replace(a, b) for one-character a and b
Replace(s, a, b) == [i \in 1..Len(s) |-> IF s[i] = a THEN b ELSE s[i]]

-----------------------------------------------------------------------------
(* Module constants.                                                       *)

_GCS_LOCAL_MOUNT_PREFIX == <<"/", "g", "c", "s", "/">>
_MINIO_LOCAL_MOUNT_PREFIX == <<"/", "m", "i", "n", "i", "o", "/">>
_S3_LOCAL_MOUNT_PREFIX == <<"/", "s", "3", "/">>
_OCI_LOCAL_MOUNT_PREFIX == <<"/", "o", "c", "i", "/">>

RemotePrefix_GCS == <<"g", "s", ":", "/", "/">>
RemotePrefix_MINIO == <<"m", "i", "n", "i", "o", ":", "/", "/">>
RemotePrefix_S3 == <<"s", "3", ":", "/", "/">>
RemotePrefix_OCI == <<"o", "c", "i", ":", "/", "/">>

SlashModels == <<"/", "m", "o", "d", "e", "l", "s">>

UNSUPPORTED_KFP_PATH ==
    <<"/", "t", "m", "p", "/", "k", "f", "p", "_", "o", "u", "t", "p", "u", "t", "s">>

DefaultSuffix == <<"O", "u", "t", "p", "u", "t">>

-----------------------------------------------------------------------------
(* uri <-> path translation.                                               *)

\* Artifact._get_path
Artifact_get_path(u) ==
    IF StartsWith(u, RemotePrefix_GCS)
    THEN _GCS_LOCAL_MOUNT_PREFIX \o DropPrefix(u, Len(RemotePrefix_GCS))
    ELSE IF StartsWith(u, RemotePrefix_MINIO)
    THEN _MINIO_LOCAL_MOUNT_PREFIX \o DropPrefix(u, Len(RemotePrefix_MINIO))
    ELSE IF StartsWith(u, RemotePrefix_S3)
    THEN _S3_LOCAL_MOUNT_PREFIX \o DropPrefix(u, Len(RemotePrefix_S3))
    ELSE IF StartsWith(u, RemotePrefix_OCI)
    THEN LET escaped_uri == Replace(DropPrefix(u, Len(RemotePrefix_OCI)), "/", "_")
         IN  _OCI_LOCAL_MOUNT_PREFIX \o escaped_uri
    ELSE u

\* a Model.path that forgets the modelcar suffix
Model_path_NoSuffix(u) == Artifact_get_path(u)

\* Model.path
Model_path(u) ==
    IF StartsWith(u, RemotePrefix_OCI)
    THEN Artifact_get_path(u) \o SlashModels
    ELSE Artifact_get_path(u)

\* the path property of an object of class k
PathOf(k, u) == IF k = "Model" THEN Model_path(u) ELSE Artifact_get_path(u)

convert_local_path_to_remote_path(path) ==
    IF StartsWith(path, _GCS_LOCAL_MOUNT_PREFIX)
    THEN RemotePrefix_GCS \o DropPrefix(path, Len(_GCS_LOCAL_MOUNT_PREFIX))
    ELSE IF StartsWith(path, _MINIO_LOCAL_MOUNT_PREFIX)
    THEN RemotePrefix_MINIO \o DropPrefix(path, Len(_MINIO_LOCAL_MOUNT_PREFIX))
    ELSE IF StartsWith(path, _S3_LOCAL_MOUNT_PREFIX)
    THEN RemotePrefix_S3 \o DropPrefix(path, Len(_S3_LOCAL_MOUNT_PREFIX))
    ELSE IF StartsWith(path, _OCI_LOCAL_MOUNT_PREFIX)
    THEN LET replaced == Replace(DropPrefix(path, Len(_OCI_LOCAL_MOUNT_PREFIX)), "_", "/")
             remote_path == IF EndsWith(replaced, SlashModels)
                            THEN DropSuffix(replaced, Len(SlashModels))
                            ELSE replaced
         IN  RemotePrefix_OCI \o remote_path
    ELSE path

\* os.path.join(a, b) on a POSIX system
PathJoin(a, b) ==
    IF StartsWith(b, <<"/">>) THEN b
    ELSE IF a = <<>> \/ EndsWith(a, <<"/">>) THEN a \o b
    ELSE a \o <<"/">> \o b

-----------------------------------------------------------------------------
(* Inputs.                                                                 *)

Chunks == {<<"a">>, <<"/">>, <<"_">>, SlashModels}

RECURSIVE ChunkStrings(_)
ChunkStrings(n) ==
    IF n = 0 THEN {<<>>}
    ELSE LET shorter == ChunkStrings(n - 1)
         IN  shorter \cup {s \o c : s \in shorter, c \in Chunks}

\* uri remainders and path tails
Rests == ChunkStrings(MaxChunks)

RemotePrefixes == {RemotePrefix_GCS, RemotePrefix_MINIO, RemotePrefix_S3, RemotePrefix_OCI}

LocalMountPrefixes ==
    {_GCS_LOCAL_MOUNT_PREFIX, _MINIO_LOCAL_MOUNT_PREFIX,
     _S3_LOCAL_MOUNT_PREFIX, _OCI_LOCAL_MOUNT_PREFIX}

\* remote uris, local uris (no scheme) and a uri that only resembles oci://
UriInputs ==
    {p \o r : p \in RemotePrefixes \cup {<<>>, <<"o", "c", "i", ":", "/">>}, r \in Rests}

\* mounted paths and plain local paths
PathInputs == {p \o r : p \in LocalMountPrefixes \cup {<<>>}, r \in Rests}

\* paths a caller assigns to artifact.path
AssignedPaths ==
    {_GCS_LOCAL_MOUNT_PREFIX \o <<"a", "/", "a">>,
     _MINIO_LOCAL_MOUNT_PREFIX \o <<"a">>,
     _S3_LOCAL_MOUNT_PREFIX,
     _OCI_LOCAL_MOUNT_PREFIX \o <<"a", "_", "a">>,
     _OCI_LOCAL_MOUNT_PREFIX \o <<"a">> \o SlashModels,
     <<"/", "a">>}

-----------------------------------------------------------------------------
(* The artifact object: construction, reading path, assigning path.        *)

\* the record of Artifact.__init__ / Model.__init__ called with uri=u
InitCall(u) == [op |-> "init", arg |-> u, ret |-> <<>>, uriBefore |-> <<>>]

\* x = artifact.path
GetPath ==
    /\ acall' = [op |-> "path", arg |-> <<>>, ret |-> PathOf(kind, uri), uriBefore |-> uri]
    /\ UNCHANGED <<kind, uri, rootVars, cmVars, slicedVars>>

\* artifact.path = p
SetPath(p) ==
    /\ uri' = convert_local_path_to_remote_path(p)
    /\ acall' = [op |-> "path.setter", arg |-> p, ret |-> <<>>, uriBefore |-> uri]
    /\ UNCHANGED <<kind, rootVars, cmVars, slicedVars>>

\* artifact.path = x, for the x read last
SetPathBack ==
    /\ acall.op = "path"
    /\ SetPath(acall.ret)

NextPath ==
    \/ GetPath
    \/ \E p \in AssignedPaths : SetPath(p)
    \/ SetPathBack

-----------------------------------------------------------------------------
(* The task root and its accessor.                                         *)

None == [some |-> FALSE]

Some(s) == [some |-> TRUE, val |-> s]

NoRootCall ==
    [op |-> "none", suffix |-> <<>>, raised |-> "", ret |-> <<>>, warnings |-> 0,
     rootBefore |-> None]

TaskRootInputs == PathInputs \cup {UNSUPPORTED_KFP_PATH, UNSUPPORTED_KFP_PATH \o <<"/">>}

\* get_uri() and get_uri(suffix)
SuffixArgs == {None} \cup {Some(s) : s \in {<<>>, <<"a">>, <<"/", "a">>, <<"a", "/", "b">>}}

\* the hosting runtime assigns the module global, once
SetTaskRoot(r) ==
    /\ ~CONTAINER_TASK_ROOT.some
    /\ CONTAINER_TASK_ROOT' = Some(r)
    /\ gcall' = [NoRootCall EXCEPT !.op = "set_task_root", !.rootBefore = CONTAINER_TASK_ROOT]
    /\ UNCHANGED <<pathVars, cmVars, slicedVars>>

\* a get_uri whose legacy-path test never matches
GetUriResult_NoLegacyCase(root, suffix) ==
    IF ~root.some
    THEN [raised |-> "RuntimeError", ret |-> <<>>, warnings |-> 0]
    ELSE [raised |-> "",
          ret |-> PathJoin(convert_local_path_to_remote_path(root.val), suffix),
          warnings |-> 0]

\* what get_uri(suffix) does when the task root is root
GetUriResult(root, suffix) ==
    IF ~root.some
    THEN [raised |-> "RuntimeError", ret |-> <<>>, warnings |-> 0]
    ELSE IF root.val = UNSUPPORTED_KFP_PATH
    THEN [raised |-> "", ret |-> <<>>, warnings |-> 1]
    ELSE LET remote_task_root == convert_local_path_to_remote_path(root.val)
         IN  [raised |-> "", ret |-> PathJoin(remote_task_root, suffix), warnings |-> 0]

get_uri(arg) ==
    LET suffix == IF arg.some THEN arg.val ELSE DefaultSuffix
        r == GetUriResult(CONTAINER_TASK_ROOT, suffix)
    IN  /\ gcall' = [op |-> "get_uri", suffix |-> suffix, raised |-> r.raised,
                     ret |-> r.ret, warnings |-> r.warnings,
                     rootBefore |-> CONTAINER_TASK_ROOT]
        /\ UNCHANGED <<CONTAINER_TASK_ROOT, pathVars, cmVars, slicedVars>>

NextRoot ==
    \/ \E r \in TaskRootInputs : SetTaskRoot(r)
    \/ \E a \in SuffixArgs : get_uri(a)

-----------------------------------------------------------------------------
(* ClassificationMetrics.  The object is a record of its attributes and of *)
(* the mutable objects it reaches: dicts (the _confusion_matrix dict),     *)
(* lists (the _matrix list) and rows (the lists of cell values), each a    *)
(* map from an object identity to the object's content.  An attribute or   *)
(* dict entry that holds a mutable object holds its identity, so that two  *)
(* references to one object see each other's writes.  Identity 0 is "no    *)
(* object" (the attribute is absent).                                      *)

Range(f) == {f[x] : x \in DOMAIN f}

\* a bare ClassificationMetrics(): Artifact.__init__ sets metadata = {} and
\* none of _categories, _matrix, _confusion_matrix
NewClassificationMetrics ==
    [attrs |-> {},
     categories |-> <<>>,
     matrix |-> 0,
     confusion_matrix |-> 0,
     metadata |-> <<>>,
     dicts |-> <<>>,
     lists |-> <<>>,
     rows |-> <<>>]

\* how a method call ends: the object as it is left, and the exception raised
Return(o) == [obj |-> o, raised |-> ""]

Raise(o, e) == [obj |-> o, raised |-> e]

\* the identity of a newly created object: one no live object has
FreshId(used) ==
    CHOOSE i \in 1..(Cardinality(used) + 1) :
        i \notin used /\ \A j \in 1..(i - 1) : j \in used

RECURSIVE FreshIds(_, _)
FreshIds(used, n) ==
    IF n = 0 THEN <<>>
    ELSE LET i == FreshId(used) IN <<i>> \o FreshIds(used \cup {i}, n - 1)

\* list.index(x): position of the first occurrence (1-based here)
Index(list, x) ==
    CHOOSE i \in 1..Len(list) : list[i] = x /\ \A j \in 1..(i - 1) : list[j] # x

\* d[key] = value on a dict
DictSet(d, key, value) == (key :> value) @@ d

\* [0] * n
Zeros(n) == [i \in 1..n |-> 0]

\* a log_roc_data_point that stores tpr and fpr the wrong way round
log_roc_data_point_Swapped(o, fpr, tpr, threshold) ==
    LET roc_reading == [confidenceThreshold |-> threshold, recall |-> fpr,
                        falsePositiveRate |-> tpr]
        md == IF "confidenceMetrics" \notin DOMAIN o.metadata
              THEN DictSet(o.metadata, "confidenceMetrics", <<>>)
              ELSE o.metadata
    IN  Return([o EXCEPT !.metadata =
                   [md EXCEPT !["confidenceMetrics"] = Append(@, roc_reading)]])

log_roc_data_point(o, fpr, tpr, threshold) ==
    LET roc_reading == [confidenceThreshold |-> threshold, recall |-> tpr,
                        falsePositiveRate |-> fpr]
        md == IF "confidenceMetrics" \notin DOMAIN o.metadata
              THEN DictSet(o.metadata, "confidenceMetrics", <<>>)
              ELSE o.metadata
    IN  Return([o EXCEPT !.metadata =
                   [md EXCEPT !["confidenceMetrics"] = Append(@, roc_reading)]])

\* the loop of log_roc_curve, from index i on
RECURSIVE RocCurveLoop(_, _, _, _, _)
RocCurveLoop(o, fpr, tpr, threshold, i) ==
    IF i > Len(fpr) THEN Return(o)
    ELSE LET r == log_roc_data_point(o, fpr[i], tpr[i], threshold[i])
         IN  IF r.raised # "" THEN r
             ELSE RocCurveLoop(r.obj, fpr, tpr, threshold, i + 1)

\* a length test that only notices an fpr list longer than the others
RocLengthsDiffer_OnlyLongerFpr(fpr, tpr, threshold) ==
    Len(fpr) > Len(tpr) \/ Len(fpr) > Len(threshold)

\* the length test of log_roc_curve
RocLengthsDiffer(fpr, tpr, threshold) ==
    \/ Len(fpr) # Len(tpr)
    \/ Len(fpr) # Len(threshold)
    \/ Len(tpr) # Len(threshold)

log_roc_curve(o, fpr, tpr, threshold) ==
    IF RocLengthsDiffer(fpr, tpr, threshold)
    THEN Raise(o, "ValueError")
    ELSE RocCurveLoop(o, fpr, tpr, threshold, 1)

\* a set_confusion_matrix_categories without "self._categories = []": the
\* new categories are appended to the ones already there
set_confusion_matrix_categories_NoReset(o, categories) ==
    LET all == o.categories \o categories
        n == Len(all)
        annotation_specs == [i \in 1..Len(categories) |-> [displayName |-> categories[i]]]
        rowIds == FreshIds(DOMAIN o.rows, n)
        matrixId == FreshId(DOMAIN o.lists)
        dictId == FreshId(DOMAIN o.dicts)
        newRows == [id \in Range(rowIds) |-> Zeros(n)]
        newMatrix == [i \in 1..n |-> [row |-> rowIds[i]]]
        newDict == [annotationSpecs |-> annotation_specs, rows |-> matrixId]
    IN  Return([o EXCEPT
                   !.attrs = @ \cup {"_categories", "_matrix", "_confusion_matrix"},
                   !.categories = all,
                   !.matrix = matrixId,
                   !.confusion_matrix = dictId,
                   !.rows = newRows @@ @,
                   !.lists = (matrixId :> newMatrix) @@ @,
                   !.dicts = (dictId :> newDict) @@ @,
                   !.metadata = DictSet(@, "confusionMatrix", dictId)])

set_confusion_matrix_categories(o, categories) ==
    LET n == Len(categories)
        annotation_specs == [i \in 1..n |-> [displayName |-> categories[i]]]
        rowIds == FreshIds(DOMAIN o.rows, n)
        matrixId == FreshId(DOMAIN o.lists)
        dictId == FreshId(DOMAIN o.dicts)
        newRows == [id \in Range(rowIds) |-> Zeros(n)]
        newMatrix == [i \in 1..n |-> [row |-> rowIds[i]]]
        newDict == [annotationSpecs |-> annotation_specs, rows |-> matrixId]
    IN  Return([o EXCEPT
                   !.attrs = @ \cup {"_categories", "_matrix", "_confusion_matrix"},
                   !.categories = categories,
                   !.matrix = matrixId,
                   !.confusion_matrix = dictId,
                   !.rows = newRows @@ @,
                   !.lists = (matrixId :> newMatrix) @@ @,
                   !.dicts = (dictId :> newDict) @@ @,
                   !.metadata = DictSet(@, "confusionMatrix", dictId)])

\* a row update that does not look at the length of the row
log_confusion_matrix_row_NoLengthCheck(o, row_category, row) ==
    IF "_categories" \notin o.attrs
    THEN Raise(o, "AttributeError")
    ELSE IF row_category \notin Range(o.categories)
    THEN Raise(o, "ValueError")
    ELSE Return([o EXCEPT
                    !.lists[o.matrix][Index(o.categories, row_category)] = [row |-> row],
                    !.metadata = DictSet(@, "confusionMatrix", o.confusion_matrix)])

\* row is the identity of the caller's list
log_confusion_matrix_row(o, row_category, row) ==
    IF "_categories" \notin o.attrs
    THEN Raise(o, "AttributeError")
    ELSE IF row_category \notin Range(o.categories)
    THEN Raise(o, "ValueError")
    ELSE IF Len(o.rows[row]) # Len(o.categories)
    THEN Raise(o, "ValueError")
    ELSE Return([o EXCEPT
                    !.lists[o.matrix][Index(o.categories, row_category)] = [row |-> row],
                    !.metadata = DictSet(@, "confusionMatrix", o.confusion_matrix)])

log_confusion_matrix_cell(o, row_category, col_category, value) ==
    IF "_categories" \notin o.attrs
    THEN Raise(o, "AttributeError")
    ELSE IF row_category \notin Range(o.categories)
    THEN Raise(o, "ValueError")
    ELSE IF col_category \notin Range(o.categories)
    THEN Raise(o, "ValueError")
    ELSE LET rowId == o.lists[o.matrix][Index(o.categories, row_category)].row
         IN  Return([o EXCEPT
                        !.rows[rowId][Index(o.categories, col_category)] = value,
                        !.metadata = DictSet(@, "confusionMatrix", o.confusion_matrix)])

\* a loop that passes over a row of the wrong length instead of raising
RECURSIVE ConfusionMatrixLoop_SkipsBadRow(_, _, _, _)
ConfusionMatrixLoop_SkipsBadRow(o, categories, matrix, index) ==
    IF index > Len(categories)
    THEN Return([o EXCEPT !.metadata = DictSet(@, "confusionMatrix", o.confusion_matrix)])
    ELSE IF Len(o.rows[matrix[index]]) # Len(categories)
    THEN ConfusionMatrixLoop_SkipsBadRow(o, categories, matrix, index + 1)
    ELSE LET r == log_confusion_matrix_row(o, categories[index], matrix[index])
         IN  IF r.raised # "" THEN r
             ELSE ConfusionMatrixLoop_SkipsBadRow(r.obj, categories, matrix, index + 1)

\* the loop of log_confusion_matrix, from index on; matrix holds the
\* identities of the caller's row lists
RECURSIVE ConfusionMatrixLoop(_, _, _, _)
ConfusionMatrixLoop(o, categories, matrix, index) ==
    IF index > Len(categories)
    THEN Return([o EXCEPT !.metadata = DictSet(@, "confusionMatrix", o.confusion_matrix)])
    ELSE IF Len(o.rows[matrix[index]]) # Len(categories)
    THEN Raise(o, "ValueError")
    ELSE LET r == log_confusion_matrix_row(o, categories[index], matrix[index])
         IN  IF r.raised # "" THEN r
             ELSE ConfusionMatrixLoop(r.obj, categories, matrix, index + 1)

log_confusion_matrix(o, categories, matrix) ==
    LET r == set_confusion_matrix_categories(o, categories)
    IN  IF Len(matrix) # Len(categories)
        THEN Raise(r.obj, "ValueError")
        ELSE ConfusionMatrixLoop(r.obj, categories, matrix, 1)

-----------------------------------------------------------------------------
(* Object identities carry no meaning: after each call the objects no      *)
(* reference reaches any more are dropped and the others are renumbered in *)
(* the order in which the references reach them.                           *)

IsRef(id) == id # 0

RECURSIVE FirstOccurrences(_, _, _)
FirstOccurrences(s, i, acc) ==
    IF i > Len(s) THEN acc
    ELSE FirstOccurrences(s, i + 1,
                          IF s[i] \in Range(acc) THEN acc ELSE Append(acc, s[i]))

RECURSIVE Flatten(_, _)
Flatten(ss, i) == IF i > Len(ss) THEN <<>> ELSE ss[i] \o Flatten(ss, i + 1)

Rank(order, id) == IF id = 0 THEN 0 ELSE CHOOSE i \in 1..Len(order) : order[i] = id

Normalize(o) ==
    LET metaRef == IF "confusionMatrix" \in DOMAIN o.metadata
                   THEN <<o.metadata["confusionMatrix"]>>
                   ELSE <<>>
        dictOrder == FirstOccurrences(SelectSeq(<<o.confusion_matrix>> \o metaRef, IsRef), 1, <<>>)
        listOrder == FirstOccurrences(
                         SelectSeq(<<o.matrix>>, IsRef)
                             \o [i \in 1..Len(dictOrder) |-> o.dicts[dictOrder[i]].rows],
                         1, <<>>)
        rowOrder == FirstOccurrences(
                        Flatten([i \in 1..Len(listOrder) |->
                                    [j \in 1..Len(o.lists[listOrder[i]]) |->
                                        o.lists[listOrder[i]][j].row]], 1),
                        1, <<>>)
    IN  [o EXCEPT
            !.matrix = Rank(listOrder, @),
            !.confusion_matrix = Rank(dictOrder, @),
            !.metadata = IF "confusionMatrix" \in DOMAIN @
                         THEN [@ EXCEPT !["confusionMatrix"] = Rank(dictOrder, @)]
                         ELSE @,
            !.dicts = [i \in 1..Len(dictOrder) |->
                          [o.dicts[dictOrder[i]] EXCEPT !.rows = Rank(listOrder, @)]],
            !.lists = [i \in 1..Len(listOrder) |->
                          [j \in 1..Len(o.lists[listOrder[i]]) |->
                              [row |-> Rank(rowOrder, o.lists[listOrder[i]][j].row)]]],
            !.rows = [i \in 1..Len(rowOrder) |-> o.rows[rowOrder[i]]]]

\* the cell values a matrix list holds, row by row
MatrixOf(o, matrixId) ==
    [i \in 1..Len(o.lists[matrixId]) |-> o.rows[o.lists[matrixId][i].row]]

\* what a caller sees of the object: its attributes and its metadata, with
\* every reference followed
View(o) ==
    LET present == "confusionMatrix" \in DOMAIN o.metadata
    IN  [attrs |-> o.attrs,
         categories |-> o.categories,
         matrix |-> IF o.matrix = 0 THEN <<>> ELSE MatrixOf(o, o.matrix),
         keys |-> DOMAIN o.metadata,
         confidenceMetrics |-> IF "confidenceMetrics" \in DOMAIN o.metadata
                               THEN o.metadata["confidenceMetrics"]
                               ELSE <<>>,
         annotationSpecs |-> IF present
                             THEN o.dicts[o.metadata["confusionMatrix"]].annotationSpecs
                             ELSE <<>>,
         rows |-> IF present
                  THEN MatrixOf(o, o.dicts[o.metadata["confusionMatrix"]].rows)
                  ELSE <<>>]

\* the caller creates a list with the given content
NewList(o, content) ==
    LET id == FreshId(DOMAIN o.rows)
    IN  [obj |-> [o EXCEPT !.rows = (id :> content) @@ @], id |-> id]

RECURSIVE NewLists(_, _, _)
NewLists(o, contents, i) ==
    IF i > Len(contents) THEN [obj |-> o, ids |-> <<>>]
    ELSE LET a == NewList(o, contents[i])
             rest == NewLists(a.obj, contents, i + 1)
         IN  [obj |-> rest.obj, ids |-> <<a.id>> \o rest.ids]

-----------------------------------------------------------------------------
(* Calls on the ClassificationMetrics object.                              *)

\* largest cell value a caller logs
MaxVal == 1

\* most readings the ROC curve is let grow to
MaxReadings == 3

CellValues == 0..MaxVal

CategoryLists == {<<>>, <<"a">>, <<"a", "b">>, <<"b", "a">>, <<"a", "a">>}

\* category arguments: two that may be known, one that never is
CategoryArgs == {"a", "b", "z"}

\* contents of the row lists passed to log_confusion_matrix_row
RowContents ==
    {<<>>} \cup {<<v>> : v \in CellValues} \cup {<<v, w>> : v, w \in CellValues}

\* a matrix argument of log_confusion_matrix: pool holds the contents of the
\* distinct row lists, idx says which list stands at which place (the same
\* list may stand at two places, as in [[1, 2]] * 2)
Rows(pool) == [pool |-> pool, idx |-> [i \in 1..Len(pool) |-> i]]

BulkMatrices ==
    {Rows(<<>>),
     Rows(<<<<1>>>>),
     Rows(<<<<1, 2>>>>),
     Rows(<<<<1>>, <<2>>>>),
     Rows(<<<<1, 2>>, <<2, 1>>>>),
     Rows(<<<<1, 2>>, <<1>>>>),
     Rows(<<<<1>>, <<1, 2>>>>),
     Rows(<<<<1, 2>>, <<2, 1>>, <<1, 1>>>>),
     [pool |-> <<<<1, 2>>>>, idx |-> <<1, 1>>]}

FprLists == {<<>>, <<1>>, <<1, 2>>}
TprLists == {<<>>, <<3>>, <<3, 4>>}
ThresholdLists == {<<>>, <<5>>, <<5, 6>>}

NoCMCall ==
    [op |-> "none", raised |-> "", before |-> View(NewClassificationMetrics),
     category |-> "", col |-> "", value |-> 0, row |-> <<>>, shared |-> FALSE,
     categories |-> <<>>, rows |-> <<>>, fpr |-> <<>>, tpr |-> <<>>, threshold |-> <<>>]

CMCall(name, r) == [NoCMCall EXCEPT !.op = name, !.raised = r.raised, !.before = View(cm)]

ReadingsLogged == Len(View(cm).confidenceMetrics)

Do_log_roc_data_point(fpr, tpr, threshold) ==
    /\ ReadingsLogged < MaxReadings
    /\ LET r == log_roc_data_point(cm, fpr, tpr, threshold)
       IN  /\ cm' = Normalize(r.obj)
           /\ ccall' = [CMCall("log_roc_data_point", r) EXCEPT
                           !.fpr = <<fpr>>, !.tpr = <<tpr>>, !.threshold = <<threshold>>]
    /\ UNCHANGED <<pathVars, rootVars, slicedVars>>

Do_log_roc_curve(fpr, tpr, threshold) ==
    /\ ReadingsLogged + Len(fpr) <= MaxReadings
    /\ LET r == log_roc_curve(cm, fpr, tpr, threshold)
       IN  /\ cm' = Normalize(r.obj)
           /\ ccall' = [CMCall("log_roc_curve", r) EXCEPT
                           !.fpr = fpr, !.tpr = tpr, !.threshold = threshold]
    /\ UNCHANGED <<pathVars, rootVars, slicedVars>>

Do_set_confusion_matrix_categories(categories) ==
    /\ LET r == set_confusion_matrix_categories(cm, categories)
       IN  /\ cm' = Normalize(r.obj)
           /\ ccall' = [CMCall("set_confusion_matrix_categories", r) EXCEPT
                           !.categories = categories]
    /\ UNCHANGED <<pathVars, rootVars, slicedVars>>

\* the row passed is a list the caller has just built
Do_log_confusion_matrix_row(row_category, content) ==
    /\ LET a == NewList(cm, content)
           r == log_confusion_matrix_row(a.obj, row_category, a.id)
       IN  /\ cm' = Normalize(r.obj)
           /\ ccall' = [CMCall("log_confusion_matrix_row", r) EXCEPT
                           !.category = row_category, !.row = content]
    /\ UNCHANGED <<pathVars, rootVars, slicedVars>>

\* the row passed is a list that already is a row of the matrix
Do_log_confusion_matrix_row_shared(row_category, id) ==
    /\ LET r == log_confusion_matrix_row(cm, row_category, id)
       IN  /\ cm' = Normalize(r.obj)
           /\ ccall' = [CMCall("log_confusion_matrix_row", r) EXCEPT
                           !.category = row_category, !.row = cm.rows[id],
                           !.shared = TRUE]
    /\ UNCHANGED <<pathVars, rootVars, slicedVars>>

Do_log_confusion_matrix_cell(row_category, col_category, value) ==
    /\ LET r == log_confusion_matrix_cell(cm, row_category, col_category, value)
       IN  /\ cm' = Normalize(r.obj)
           /\ ccall' = [CMCall("log_confusion_matrix_cell", r) EXCEPT
                           !.category = row_category, !.col = col_category,
                           !.value = value]
    /\ UNCHANGED <<pathVars, rootVars, slicedVars>>

Do_log_confusion_matrix(categories, m) ==
    /\ LET a == NewLists(cm, m.pool, 1)
           matrix == [i \in 1..Len(m.idx) |-> a.ids[m.idx[i]]]
           r == log_confusion_matrix(a.obj, categories, matrix)
       IN  /\ cm' = Normalize(r.obj)
           /\ ccall' = [CMCall("log_confusion_matrix", r) EXCEPT
                           !.categories = categories,
                           !.rows = [i \in 1..Len(m.idx) |-> m.pool[m.idx[i]]],
                           !.shared = Len(m.idx) > Len(m.pool)]
    /\ UNCHANGED <<pathVars, rootVars, slicedVars>>

NextRoc ==
    \/ \E f \in {1, 2}, t \in {3, 4}, th \in {5, 6} : Do_log_roc_data_point(f, t, th)
    \/ \E f \in FprLists, t \in TprLists, th \in ThresholdLists : Do_log_roc_curve(f, t, th)

NextCM ==
    \/ \E c \in CategoryLists : Do_set_confusion_matrix_categories(c)
    \/ \E c \in CategoryArgs, row \in RowContents : Do_log_confusion_matrix_row(c, row)
    \/ \E c \in CategoryArgs, id \in DOMAIN cm.rows : Do_log_confusion_matrix_row_shared(c, id)
    \/ \E r, c \in CategoryArgs, v \in CellValues : Do_log_confusion_matrix_cell(r, c, v)
    \/ \E c \in CategoryLists, m \in BulkMatrices : Do_log_confusion_matrix(c, m)

-----------------------------------------------------------------------------
(* SlicedClassificationMetrics.  The class has no __init__ of its own:     *)
(* Artifact.__init__ sets uri, name and metadata, and nothing assigns      *)
(* _sliced_metrics.  sliced_metrics is the dict in insertion order, as a   *)
(* sequence of (slice, metrics) entries.                                   *)

NewSlicedClassificationMetrics ==
    [attrs |-> {}, sliced_metrics |-> <<>>, metadata |-> <<>>]

SliceKeys(o) == {e.slice : e \in Range(o.sliced_metrics)}

_upsert_classification_metrics_for_slice(o, slice) ==
    IF "_sliced_metrics" \notin o.attrs
    THEN Raise(o, "AttributeError")
    ELSE IF slice \notin SliceKeys(o)
    THEN Return([o EXCEPT !.sliced_metrics =
                    Append(@, [slice |-> slice, metrics |-> NewClassificationMetrics])])
    ELSE Return(o)

_update_metadata(o, slice) ==
    Return([o EXCEPT !.metadata =
               "evaluationSlices" :>
                   [i \in 1..Len(o.sliced_metrics) |->
                       [slice |-> o.sliced_metrics[i].slice,
                        sliceClassificationMetrics |-> View(o.sliced_metrics[i].metrics)]]])

\* SlicedClassificationMetrics.log_roc_reading.  ClassificationMetrics
\* defines log_roc_data_point and log_roc_curve but no log_roc_reading, so
\* the delegated call raises AttributeError.
Sliced_log_roc_reading(o, slice, threshold, tpr, fpr) ==
    LET u == _upsert_classification_metrics_for_slice(o, slice)
    IN  IF u.raised # "" THEN u
        ELSE LET delegated == Raise(u.obj, "AttributeError")
             IN  IF delegated.raised # "" THEN delegated
                 ELSE _update_metadata(delegated.obj, slice)

SliceLabels == {"sliceA", "sliceB"}

NoSlicedCall ==
    [op |-> "none", raised |-> "", slice |-> "", threshold |-> 0, tpr |-> 0, fpr |-> 0]

\* referenced with one more reading passed for slice
Reference(refs, slice, reading) ==
    IF \E i \in 1..Len(refs) : refs[i].slice = slice
    THEN [i \in 1..Len(refs) |->
             IF refs[i].slice = slice
             THEN [refs[i] EXCEPT !.readings = Append(@, reading)]
             ELSE refs[i]]
    ELSE Append(refs, [slice |-> slice, readings |-> <<reading>>])

ReadingsPassed(refs, slice) ==
    IF \E i \in 1..Len(refs) : refs[i].slice = slice
    THEN Len(refs[CHOOSE i \in 1..Len(refs) : refs[i].slice = slice].readings)
    ELSE 0

Do_Sliced_log_roc_reading(slice, threshold, tpr, fpr) ==
    /\ ReadingsPassed(referenced, slice) < MaxReadings
    /\ LET r == Sliced_log_roc_reading(scm, slice, threshold, tpr, fpr)
       IN  /\ scm' = r.obj
           /\ scall' = [op |-> "log_roc_reading", raised |-> r.raised, slice |-> slice,
                        threshold |-> threshold, tpr |-> tpr, fpr |-> fpr]
    /\ referenced' = Reference(referenced, slice,
                               [confidenceThreshold |-> threshold, recall |-> tpr,
                                falsePositiveRate |-> fpr])
    /\ UNCHANGED <<pathVars, rootVars, cmVars>>

NextSliced ==
    \E sl \in SliceLabels, th \in {5, 6}, t \in {3}, f \in {1} :
        Do_Sliced_log_roc_reading(sl, th, t, f)

-----------------------------------------------------------------------------
(* Specifications.                                                         *)

vars == <<kind, uri, acall, CONTAINER_TASK_ROOT, gcall, cm, ccall, scm, scall, referenced>>

\* one artifact constructed with some uri; nothing else touched
InitOfPath ==
    /\ kind \in {"Artifact", "Model"}
    /\ uri \in UriInputs
    /\ acall = InitCall(uri)
    /\ CONTAINER_TASK_ROOT = None
    /\ gcall = NoRootCall
    /\ cm = NewClassificationMetrics
    /\ ccall = NoCMCall
    /\ scm = NewSlicedClassificationMetrics
    /\ scall = NoSlicedCall
    /\ referenced = <<>>

\* the module just imported and one object of each class constructed with
\* no arguments
Init ==
    /\ kind = "Artifact"
    /\ uri = <<>>
    /\ acall = InitCall(<<>>)
    /\ CONTAINER_TASK_ROOT = None
    /\ gcall = NoRootCall
    /\ cm = NewClassificationMetrics
    /\ ccall = NoCMCall
    /\ scm = NewSlicedClassificationMetrics
    /\ scall = NoSlicedCall
    /\ referenced = <<>>

SpecPath == InitOfPath /\ [][NextPath]_vars

SpecRoot == Init /\ [][NextRoot]_vars

SpecRoc == Init /\ [][NextRoc]_vars

SpecCM == Init /\ [][NextCM]_vars

SpecSliced == Init /\ [][NextSliced]_vars

-----------------------------------------------------------------------------
(* Claims about the uri <-> path translation (SpecPath).                   *)

\* the local mount prefix paired with a remote scheme
MountOf(S) ==
    CASE S = RemotePrefix_GCS -> _GCS_LOCAL_MOUNT_PREFIX
      [] S = RemotePrefix_MINIO -> _MINIO_LOCAL_MOUNT_PREFIX
      [] S = RemotePrefix_S3 -> _S3_LOCAL_MOUNT_PREFIX
      [] S = RemotePrefix_OCI -> _OCI_LOCAL_MOUNT_PREFIX

\* t is rest with every "/" turned into "_" and nothing else changed
IsUnderscored(t, rest) ==
    /\ Len(t) = Len(rest)
    /\ \A i \in 1..Len(rest) : t[i] = (IF rest[i] = "/" THEN "_" ELSE rest[i])

\* p is the local path the claim expects for the uri S + rest
IsExpectedPath(p, S, rest) ==
    /\ StartsWith(p, MountOf(S))
    /\ LET t == DropPrefix(p, Len(MountOf(S)))
       IN  IF S = RemotePrefix_OCI THEN IsUnderscored(t, rest) ELSE t = rest

\* C1: for every remote scheme S and remainder rest, an Artifact with uri
\* S + rest has path MountOf(S) + transform(rest), and assigning that path back
\* to path gives the uri S + rest again, unless S is oci:// and rest ends in
\* "/models".
C1_RoundTrip ==
    \A S \in RemotePrefixes :
        (kind = "Artifact" /\ StartsWith(acall.uriBefore, S)) =>
            LET rest == DropPrefix(acall.uriBefore, Len(S))
            IN  /\ acall.op = "path" => IsExpectedPath(acall.ret, S, rest)
                /\ ( /\ acall.op = "path.setter"
                     /\ IsExpectedPath(acall.arg, S, rest)
                     /\ ~(S = RemotePrefix_OCI /\ EndsWith(rest, SlashModels)) )
                   => uri = acall.uriBefore

\* C7: Model.path of an oci:// uri is "/oci/" + the remainder with every "/"
\* turned into "_" + "/models"; of any other uri it is the generic Artifact
\* path, with nothing added.
C7_ModelPath ==
    (kind = "Model" /\ acall.op = "path") =>
        IF StartsWith(acall.uriBefore, RemotePrefix_OCI)
        THEN LET rest == DropPrefix(acall.uriBefore, Len(RemotePrefix_OCI))
                 n == Len(acall.ret) - Len(SlashModels)
             IN  /\ n >= Len(_OCI_LOCAL_MOUNT_PREFIX)
                 /\ SubSeq(acall.ret, 1, Len(_OCI_LOCAL_MOUNT_PREFIX)) = _OCI_LOCAL_MOUNT_PREFIX
                 /\ IsUnderscored(SubSeq(acall.ret, Len(_OCI_LOCAL_MOUNT_PREFIX) + 1, n), rest)
                 /\ SubSeq(acall.ret, n + 1, Len(acall.ret)) = SlashModels
        ELSE acall.ret = Artifact_get_path(acall.uriBefore)

\* the path of Model(uri="oci://a/a") has been read: "/oci/a_a/models"
C7_Witness ==
    /\ kind = "Model"
    /\ acall.op = "path"
    /\ acall.uriBefore = RemotePrefix_OCI \o <<"a", "/", "a">>
    /\ acall.ret = _OCI_LOCAL_MOUNT_PREFIX \o <<"a", "_", "a">> \o SlashModels

-----------------------------------------------------------------------------
(* Claims about the task-root accessor (SpecRoot).                         *)

\* ret is root joined with suffix: it ends with the suffix and, unless the
\* suffix is absolute, starts with root, with at most one "/" between them
IsJoined(ret, root, suffix) ==
    /\ EndsWith(ret, suffix)
    /\ ~StartsWith(suffix, <<"/">>) =>
          /\ StartsWith(ret, root)
          /\ LET gap == Len(ret) - Len(root) - Len(suffix)
             IN  \/ gap = 0
                 \/ gap = 1 /\ ret[Len(root) + 1] = "/"

\* C8: get_uri(suffix) raises RuntimeError while the task root is None; returns
\* '' with one warning when the task root is '/tmp/kfp_outputs'; otherwise
\* returns the task root, translated to its remote form, joined with the suffix
\* (default 'Output'); and it leaves the task root as it was.
C8_GetUri ==
    gcall.op = "get_uri" =>
        /\ CONTAINER_TASK_ROOT = gcall.rootBefore
        /\ IF ~gcall.rootBefore.some
           THEN gcall.raised = "RuntimeError"
           ELSE IF gcall.rootBefore.val = UNSUPPORTED_KFP_PATH
           THEN gcall.raised = "" /\ gcall.ret = <<>> /\ gcall.warnings = 1
           ELSE /\ gcall.raised = ""
                /\ gcall.warnings = 0
                /\ IsJoined(gcall.ret,
                            convert_local_path_to_remote_path(gcall.rootBefore.val),
                            gcall.suffix)

\* get_uri() under the legacy task root has returned '' with a warning
C8_Witness ==
    /\ gcall.op = "get_uri"
    /\ gcall.rootBefore = Some(UNSUPPORTED_KFP_PATH)
    /\ gcall.suffix = DefaultSuffix
    /\ gcall.ret = <<>>
    /\ gcall.warnings = 1

-----------------------------------------------------------------------------
(* Claims about the ROC curve of ClassificationMetrics (SpecRoc).          *)

RocLengthsEqual ==
    Len(ccall.fpr) = Len(ccall.tpr) /\ Len(ccall.fpr) = Len(ccall.threshold)

\* C5: log_roc_curve with lists that are not all of one length raises
\* ValueError and leaves the object as it was: no reading appended, no
\* 'confidenceMetrics' key created.
C5_RocCurveRejected ==
    (ccall.op = "log_roc_curve" /\ ~RocLengthsEqual) =>
        /\ ccall.raised = "ValueError"
        /\ View(cm) = ccall.before

\* fpr and tpr of one length, threshold longer, on an object with no
\* readings: rejected, and still no 'confidenceMetrics' key
C5_Witness ==
    /\ ccall.op = "log_roc_curve"
    /\ Len(ccall.fpr) = 1 /\ Len(ccall.tpr) = 1 /\ Len(ccall.threshold) = 2
    /\ ccall.raised = "ValueError"
    /\ "confidenceMetrics" \notin View(cm).keys

\* C9: log_roc_curve with three lists of one length n appends exactly n
\* readings after those already there, the i-th being {confidenceThreshold:
\* threshold[i], recall: tpr[i], falsePositiveRate: fpr[i]}; no call removes
\* or reorders readings logged earlier.
C9_RocCurveAppends ==
    LET old == ccall.before.confidenceMetrics
        new == View(cm).confidenceMetrics
        n == Len(ccall.fpr)
    IN  /\ ccall.op # "none" =>
              Len(new) >= Len(old) /\ SubSeq(new, 1, Len(old)) = old
        /\ (ccall.op = "log_roc_curve" /\ RocLengthsEqual) =>
              /\ ccall.raised = ""
              /\ Len(new) = Len(old) + n
              /\ \A i \in 1..n :
                    new[Len(old) + i] =
                        [confidenceThreshold |-> ccall.threshold[i],
                         recall |-> ccall.tpr[i],
                         falsePositiveRate |-> ccall.fpr[i]]

\* a curve of two points logged on an object that already had a reading
C9_Witness ==
    /\ ccall.op = "log_roc_curve"
    /\ ccall.raised = ""
    /\ Len(ccall.fpr) = 2
    /\ Len(ccall.before.confidenceMetrics) = 1
    /\ Len(View(cm).confidenceMetrics) = 3

-----------------------------------------------------------------------------
(* Claims about the confusion matrix of ClassificationMetrics (SpecCM).    *)

ZeroMatrix(n) == [i \in 1..n |-> [j \in 1..n |-> 0]]

\* C10: set_confusion_matrix_categories(cats), from any state, makes cats the
\* category list and publishes metadata['confusionMatrix'] with one
\* {displayName: c} per category in order and len(cats) rows of len(cats)
\* zeros: nothing logged before survives.
C10_SetCategoriesResets ==
    ccall.op = "set_confusion_matrix_categories" =>
        LET v == View(cm)
            n == Len(ccall.categories)
        IN  /\ ccall.raised = ""
            /\ v.categories = ccall.categories
            /\ "confusionMatrix" \in v.keys
            /\ v.annotationSpecs = [i \in 1..n |-> [displayName |-> ccall.categories[i]]]
            /\ v.rows = ZeroMatrix(n)
            /\ v.matrix = ZeroMatrix(n)

\* categories set on an object that had other categories and a logged cell
C10_Witness ==
    /\ ccall.op = "set_confusion_matrix_categories"
    /\ ccall.categories = <<"a", "b">>
    /\ ccall.before.categories = <<"b", "a">>
    /\ \E i, j \in 1..2 : ccall.before.rows[i][j] # 0
    /\ View(cm).rows = ZeroMatrix(2)

BulkShapeWrong ==
    \/ Len(ccall.rows) # Len(ccall.categories)
    \/ \E i \in 1..Len(ccall.rows) : Len(ccall.rows[i]) # Len(ccall.categories)

\* C3 as stated: log_confusion_matrix checks the whole shape before applying
\* any row, so on any mismatch (row count, or the length of a row at any
\* index) it raises ValueError with every cell still 0.
C3_BulkValidatesFirst ==
    (ccall.op = "log_confusion_matrix" /\ BulkShapeWrong) =>
        /\ ccall.raised = "ValueError"
        /\ View(cm).rows = ZeroMatrix(Len(ccall.categories))

\* the place in the matrix of category c: that of its first occurrence
PlaceOf(cats, c) == CHOOSE p \in 1..Len(cats) : cats[p] = c /\ \A q \in 1..(p - 1) : cats[q] # c

\* C3 as amended: log_confusion_matrix checks the row count before applying
\* any row, and the length of each row only when it reaches it.  On a wrong
\* row count it raises ValueError with every cell still 0.  On a right row
\* count and a row of the wrong length it raises ValueError at the first such
\* row: the rows before it are written (each at the place of its category),
\* that row and the rows after it are not.
C3_BulkValidatesRowByRow ==
    (ccall.op = "log_confusion_matrix" /\ BulkShapeWrong) =>
        LET cats == ccall.categories
            n == Len(cats)
            bad == {i \in 1..Len(ccall.rows) : Len(ccall.rows[i]) # n}
            k == CHOOSE i \in bad : \A j \in bad : i <= j
            written(p) == {j \in 1..(k - 1) : PlaceOf(cats, cats[j]) = p}
            last(p) == CHOOSE j \in written(p) : \A h \in written(p) : h <= j
        IN  /\ ccall.raised = "ValueError"
            /\ View(cm).categories = cats
            /\ View(cm).matrix = View(cm).rows
            /\ IF Len(ccall.rows) # n
               THEN View(cm).rows = ZeroMatrix(n)
               ELSE View(cm).rows =
                        [p \in 1..n |-> IF written(p) = {} THEN [j \in 1..n |-> 0]
                                        ELSE ccall.rows[last(p)]]

\* [[1, 2], [1]] for categories a, b: rejected at the second row, the first
\* row already written
C3_Witness ==
    /\ ccall.op = "log_confusion_matrix"
    /\ ccall.categories = <<"a", "b">>
    /\ ccall.rows = <<<<1, 2>>, <<1>>>>
    /\ ccall.raised = "ValueError"
    /\ View(cm).rows = <<<<1, 2>>, <<0, 0>>>>

RowArgumentInvalid ==
    \/ ccall.category \notin Range(ccall.before.categories)
    \/ Len(ccall.row) # Len(ccall.before.categories)

\* C4: log_confusion_matrix_row with a category that is not a known category,
\* or a row whose length is not the category count, raises ValueError and
\* leaves the categories, the matrix and metadata['confusionMatrix'] as they
\* were.
C4_RowRejected ==
    (ccall.op = "log_confusion_matrix_row" /\ RowArgumentInvalid) =>
        /\ ccall.raised = "ValueError"
        /\ View(cm) = ccall.before

\* C4 once the categories have been set
C4_RowRejectedAfterSet ==
    ( /\ ccall.op = "log_confusion_matrix_row"
      /\ "_categories" \in ccall.before.attrs
      /\ RowArgumentInvalid ) =>
        /\ ccall.raised = "ValueError"
        /\ View(cm) = ccall.before

\* C6: once the categories are set, log_confusion_matrix_cell(r, c, v) with r
\* and c known categories sets the cell at (index(r), index(c)) to v and
\* leaves every other cell and the category list as they were; with r or c
\* unknown it raises ValueError.
C6_CellFrame ==
    (ccall.op = "log_confusion_matrix_cell" /\ "_categories" \in ccall.before.attrs) =>
        LET cats == ccall.before.categories
            n == Len(cats)
        IN  IF ccall.category \in Range(cats) /\ ccall.col \in Range(cats)
            THEN LET r == PlaceOf(cats, ccall.category)
                     c == PlaceOf(cats, ccall.col)
                 IN  /\ ccall.raised = ""
                     /\ View(cm).categories = cats
                     /\ View(cm).rows =
                            [i \in 1..n |-> [j \in 1..n |->
                                IF i = r /\ j = c THEN ccall.value
                                ELSE ccall.before.rows[i][j]]]
            ELSE ccall.raised = "ValueError"

\* the rows of `before` that are one list object cannot be told from its
\* content; C6 for the calls made right after the categories were set
C6_CellFrameFresh ==
    ( /\ ccall.op = "log_confusion_matrix_cell"
      /\ "_categories" \in ccall.before.attrs
      /\ ccall.before.rows = ZeroMatrix(Len(ccall.before.categories)) ) =>
        LET cats == ccall.before.categories
            n == Len(cats)
        IN  IF ccall.category \in Range(cats) /\ ccall.col \in Range(cats)
            THEN /\ ccall.raised = ""
                 /\ View(cm).categories = cats
                 /\ View(cm).rows[PlaceOf(cats, ccall.category)][PlaceOf(cats, ccall.col)]
                        = ccall.value
            ELSE ccall.raised = "ValueError"

\* C11: once set_confusion_matrix_categories has run on the object (directly
\* or inside log_confusion_matrix), after every call, successful or failing,
\* metadata['confusionMatrix']['rows'] is the internal matrix (the same list,
\* hence the same cells), it has one row per category, every row has one
\* entry per category, and annotationSpecs lists the categories in order.
C11_ShapeAndMirror ==
    "_categories" \in cm.attrs =>
        LET v == View(cm)
            n == Len(v.categories)
        IN  /\ "confusionMatrix" \in v.keys
            /\ cm.dicts[cm.metadata["confusionMatrix"]].rows = cm.matrix
            /\ v.rows = v.matrix
            /\ Len(v.rows) = n
            /\ \A i \in 1..n : Len(v.rows[i]) = n
            /\ v.annotationSpecs = [i \in 1..n |-> [displayName |-> v.categories[i]]]

\* a row of the wrong length refused on a two-category matrix that already
\* holds a logged value: the matrix is still 2 x 2
C11_Witness ==
    /\ ccall.op = "log_confusion_matrix_row"
    /\ ccall.raised = "ValueError"
    /\ ccall.category = "a"
    /\ Len(ccall.row) = 1
    /\ View(cm).categories = <<"a", "b">>
    /\ \E i, j \in 1..2 : View(cm).rows[i][j] # 0
    /\ Len(View(cm).rows) = 2

-----------------------------------------------------------------------------
(* Claims about SlicedClassificationMetrics (SpecSliced).                  *)

\* C2: after any sequence of log_roc_reading calls on a new
\* SlicedClassificationMetrics, metadata['evaluationSlices'] has exactly one
\* entry per slice label referenced, in first-reference order, each holding
\* the readings logged for that slice and no others.
C2_SliceIsolation ==
    scall.op = "log_roc_reading" =>
        /\ scall.raised = ""
        /\ "evaluationSlices" \in DOMAIN scm.metadata
        /\ LET es == scm.metadata["evaluationSlices"]
           IN  /\ Len(es) = Len(referenced)
               /\ \A i \in 1..Len(es) :
                     /\ es[i].slice = referenced[i].slice
                     /\ es[i].sliceClassificationMetrics.confidenceMetrics
                            = referenced[i].readings

====
